---- MODULE Spec2Model ----
(***************************************************************************)
(* Model of util.c (ATmega128 utility functions): the interrupt driven     *)
(* millisecond delay, the push button and shaft encoder readers and the    *)
(* stepper motor sequencer.                                                *)
(*                                                                         *)
(* The main program and the TIMER2_COMP interrupt handler are interleaved  *)
(* at the granularity of the accesses the 8-bit target makes to the shared *)
(* 16-bit counter timer2_tick: a read of the counter is two byte reads.    *)
(***************************************************************************)
EXTENDS Integers, Naturals, Sequences, FiniteSets, TLC

VARIABLES
    pc,            \* position of the main program
    ret,           \* where wait_ms returns to ("idle" or "m_test")
    last,          \* the function that returned last
    timer2_tick,   \* volatile unsigned int timer2_tick
    OCR2, TCCR2, TIMSK, sregI,   \* timer 2 registers and the global interrupt flag
    time_val,      \* argument of the running wait_ms
    lowFirst,      \* the build reads the low byte of timer2_tick first
    latch,         \* first byte read by the running poll of timer2_tick
    mid,           \* handler runs since that first byte was read
    elapsed,       \* handler runs since wait_ms began, counted up to time_val
    PINC,          \* input pins of port C
    stable,        \* PINC has not changed since read_push_buttons was called
    bresult,       \* return value of read_push_buttons
    old_value,     \* static unsigned char old_value of read_shaft_encoder
    rotation,      \* return value of the last read_shaft_encoder
    prevRotation,  \* return value of the call before it
    curBits,       \* bits 7..6 of PINC at the last read_shaft_encoder
    prevBits,      \* bits 7..6 of PINC at the call before it
    encCalls,      \* number of read_shaft_encoder calls, counted up to 2
    PORTE,         \* output port E
    num_steps, direction, steps, turner, masked_porte,
    writes,        \* writes of PORTE by the running stepper call
    motorCalls     \* calls of move_stepper_motor_by_step so far

vars == <<pc, ret, last, timer2_tick, OCR2, TCCR2, TIMSK, sregI, time_val,
          lowFirst, latch, mid, elapsed, PINC, stable, bresult, old_value,
          rotation, prevRotation, curBits, prevBits, encCalls, PORTE,
          num_steps, direction, steps, turner, masked_porte, writes,
          motorCalls>>

timerVars == <<timer2_tick, OCR2, TCCR2, TIMSK, sregI, time_val, latch, mid, elapsed>>
inputVars == <<PINC, stable, bresult, old_value, rotation, prevRotation,
               curBits, prevBits, encCalls>>
motorVars == <<PORTE, num_steps, direction, steps, turner, masked_porte, writes,
               motorCalls>>

-----------------------------------------------------------------------------
(* Widths and bit operations of the 8-bit target *)

ByteMod == 256
TickMod == ByteMod * ByteMod          \* unsigned int is 16 bits wide

Bit(x, k) == (x \div (2 ^ k)) % 2

RECURSIVE BitAndUpTo(_, _, _)
BitAndUpTo(a, b, k) ==
    IF k < 0 THEN 0
    ELSE (IF Bit(a, k) = 1 /\ Bit(b, k) = 1 THEN 2 ^ k ELSE 0) + BitAndUpTo(a, b, k - 1)
BitAnd(a, b) == BitAndUpTo(a, b, 7)

RECURSIVE BitOrUpTo(_, _, _)
BitOrUpTo(a, b, k) ==
    IF k < 0 THEN 0
    ELSE (IF Bit(a, k) = 1 \/ Bit(b, k) = 1 THEN 2 ^ k ELSE 0) + BitOrUpTo(a, b, k - 1)
BitOr(a, b) == BitOrUpTo(a, b, 7)

LowByte(w)  == w % ByteMod
HighByte(w) == w \div ByteMod

-----------------------------------------------------------------------------
(* Bounds *)

MaxMid == 1                           \* handler runs between the two byte reads of one poll
MaxMotorCalls == 1                    \* calls of move_stepper_motor_by_step in one run

TimeVals == {0, 300}                  \* arguments of wait_ms
StepArgs == {-1, 1}                   \* num_steps arguments
ShortStepArgs == {-1, 0}              \* num_steps arguments of the runs checked for termination
DirArgs  == {1, -1, 0}                \* direction arguments
PortEInit == {165}                    \* value of PORTE before a stepper call

-----------------------------------------------------------------------------
InitWith(orders, porte) ==
    /\ pc = "idle" /\ ret = "idle" /\ last = "none"
    /\ timer2_tick = 0
    /\ OCR2 = 0 /\ TCCR2 = 0 /\ TIMSK = 0 /\ sregI = FALSE
    /\ time_val = 0
    /\ lowFirst \in orders
    /\ latch = 0 /\ mid = 0 /\ elapsed = 0
    /\ PINC = 255
    /\ stable = TRUE /\ bresult = 0
    /\ old_value = 192
    /\ rotation = 0 /\ prevRotation = 0
    /\ curBits = 3 /\ prevBits = 3 /\ encCalls = 0
    /\ PORTE \in porte
    /\ num_steps = 0 /\ direction = 0 /\ steps = 0
    /\ turner = 16 /\ masked_porte = 0
    /\ writes = 0 /\ motorCalls = 0

\* after reset the pull-ups hold every pin of port C high and port E is clear;
\* the order of the two byte reads of timer2_tick is the compiler's choice
Init == InitWith(BOOLEAN, {0})

-----------------------------------------------------------------------------
(* wait_ms, timer2_start, timer2_stop and the interrupt handler *)

\* timer2_start(unit): clears the counter, programs the prescaler, enables
\* the compare interrupt for unit 0 or 1, and sets the global interrupt flag
Timer2Start(unit) ==
    /\ timer2_tick' = 0
    /\ TCCR2' = IF unit = 1 THEN 9 ELSE IF unit = 0 THEN 11 ELSE TCCR2
    /\ TIMSK' = IF unit \in {0, 1} THEN BitOr(TIMSK, 128) ELSE TIMSK
    /\ sregI' = TRUE

\* entry of wait_ms(t) up to the first test of the loop
WaitEntry(t, back) ==
    /\ OCR2' = 250
    /\ Timer2Start(0)
    /\ time_val' = t
    /\ elapsed' = 0
    /\ latch' = 0 /\ mid' = 0
    /\ ret' = back
    /\ pc' = "w_rd1"

CallWait(t) ==
    /\ pc = "idle"
    /\ WaitEntry(t, "idle")
    /\ last' = "none"
    /\ UNCHANGED lowFirst
    /\ UNCHANGED inputVars
    /\ UNCHANGED motorVars

\* first byte of timer2_tick read by while(timer2_tick < time_val)
WaitRead1 ==
    /\ pc = "w_rd1"
    /\ latch' = IF lowFirst THEN LowByte(timer2_tick) ELSE HighByte(timer2_tick)
    /\ mid' = 0
    /\ pc' = "w_rd2"
    /\ UNCHANGED <<ret, last, timer2_tick, OCR2, TCCR2, TIMSK, sregI, time_val,
                   lowFirst, elapsed>>
    /\ UNCHANGED inputVars
    /\ UNCHANGED motorVars

\* the value of timer2_tick the poll sees: one byte from each read
PolledTick ==
    IF lowFirst THEN HighByte(timer2_tick) * ByteMod + latch
    ELSE latch * ByteMod + LowByte(timer2_tick)

\* second byte read and the comparison with time_val
WaitRead2 ==
    /\ pc = "w_rd2"
    /\ pc' = IF PolledTick < time_val THEN "w_rd1" ELSE "w_stop"
    /\ latch' = 0 /\ mid' = 0
    /\ UNCHANGED <<ret, last, timer2_tick, OCR2, TCCR2, TIMSK, sregI, time_val,
                   lowFirst, elapsed>>
    /\ UNCHANGED inputVars
    /\ UNCHANGED motorVars

\* timer2_stop and the return of wait_ms
Timer2Stop ==
    /\ pc = "w_stop"
    /\ TIMSK' = BitAnd(TIMSK, 127)
    /\ TCCR2' = BitAnd(TCCR2, 127)
    /\ pc' = ret
    /\ last' = IF ret = "idle" THEN "wait_ms" ELSE last
    /\ UNCHANGED <<ret, timer2_tick, OCR2, sregI, time_val, lowFirst, latch, mid, elapsed>>
    /\ UNCHANGED inputVars
    /\ UNCHANGED motorVars

\* the compare interrupt is served while it is enabled
IsrEnabled == sregI /\ Bit(TIMSK, 7) = 1

\* ISR(TIMER2_COMP_vect)
TIMER2_COMP ==
    /\ IsrEnabled
    /\ pc = "w_rd2" => mid < MaxMid
    /\ timer2_tick' = (timer2_tick + 1) % TickMod
    /\ mid' = IF pc = "w_rd2" THEN mid + 1 ELSE mid
    /\ elapsed' = IF elapsed < time_val THEN elapsed + 1 ELSE elapsed
    /\ UNCHANGED <<pc, ret, last, OCR2, TCCR2, TIMSK, sregI, time_val, lowFirst, latch>>
    /\ UNCHANGED inputVars
    /\ UNCHANGED motorVars

WaitStep == WaitRead1 \/ WaitRead2 \/ Timer2Stop

NextWait ==
    \/ \E t \in TimeVals : CallWait(t)
    \/ WaitRead1
    \/ WaitRead2
    \/ Timer2Stop
    \/ TIMER2_COMP

SpecWait == Init /\ [][NextWait]_vars

FairWait == SpecWait /\ WF_vars(WaitStep) /\ WF_vars(TIMER2_COMP)

InWaitLoop == pc \in {"w_rd1", "w_rd2"}

\* C1: wait_ms does not leave its loop before the handler has run time_val
\* times since the call began
C1_WaitNotEarly == pc = "w_stop" => elapsed >= time_val

-----------------------------------------------------------------------------
(* Port C inputs: the environment moves the pins at any time *)

PinChange(v) ==
    /\ v # PINC
    /\ PINC' = v
    /\ stable' = FALSE
    /\ UNCHANGED <<pc, ret, last, lowFirst>>
    /\ UNCHANGED timerVars
    /\ UNCHANGED <<bresult, old_value, rotation, prevRotation, curBits, prevBits, encCalls>>
    /\ UNCHANGED motorVars

-----------------------------------------------------------------------------
(* read_push_buttons: an else-if chain that reads PINC once per test *)

ButtonPc == <<"b1", "b2", "b3", "b4", "b5", "b6">>

ButtonMaskShifted(k) == 2 ^ k

\* the mask of the test that returns k
ButtonMask(k) == 2 ^ (k - 1)

CallButtons ==
    /\ pc = "idle"
    /\ pc' = ButtonPc[6]
    /\ stable' = TRUE
    /\ last' = "none"
    /\ UNCHANGED <<ret, lowFirst>>
    /\ UNCHANGED timerVars
    /\ UNCHANGED <<PINC, bresult, old_value, rotation, prevRotation, curBits, prevBits, encCalls>>
    /\ UNCHANGED motorVars

\* if ((PINC & mask) == 0) return k; else the next test, or return 0 after the last
ButtonTest(k) ==
    /\ pc = ButtonPc[k]
    /\ IF BitAnd(PINC, ButtonMask(k)) = 0
       THEN /\ bresult' = k /\ pc' = "idle" /\ last' = "read_push_buttons"
       ELSE IF k = 1
            THEN /\ bresult' = 0 /\ pc' = "idle" /\ last' = "read_push_buttons"
            ELSE /\ pc' = ButtonPc[k - 1] /\ UNCHANGED <<bresult, last>>
    /\ UNCHANGED <<ret, lowFirst>>
    /\ UNCHANGED timerVars
    /\ UNCHANGED <<PINC, stable, old_value, rotation, prevRotation, curBits, prevBits, encCalls>>
    /\ UNCHANGED motorVars

NextButtons ==
    \/ CallButtons
    \/ \E k \in 1 .. 6 : ButtonTest(k)
    \/ \E v \in 0 .. 255 : PinChange(v)

SpecButtons == Init /\ [][NextButtons]_vars

Max(S) == CHOOSE x \in S : \A y \in S : y <= x

PressedButtons == {k \in 1 .. 6 : Bit(PINC, k - 1) = 0}

\* C4: when PINC stays constant during the call, read_push_buttons returns 0
\* exactly when bits 0..5 of PINC are all 1, and otherwise the position k of
\* the highest-numbered bit among bits 0..5 that is 0; bits 6 and 7 play no part
C4_ButtonPosition ==
    (pc = "idle" /\ last = "read_push_buttons" /\ stable) =>
        /\ bresult = 0 <=> PressedButtons = {}
        /\ PressedButtons # {} => bresult = Max(PressedButtons)

\* a call over constant pins with PC2 and PC0 low and PC7 low returned 3
C4_Witness ==
    pc = "idle" /\ last = "read_push_buttons" /\ stable /\ PINC = 122 /\ bresult = 3

-----------------------------------------------------------------------------
(* read_shaft_encoder *)

RotationAnyOld(old, new) ==
    IF new = 128 THEN -1 ELSE IF new = 64 THEN 1 ELSE 0

\* the value of rotation for the stored and the new switch reading
\* (char is signed in the default build of the target, so -1 is returned as -1)
EncoderRotation(old, new) ==
    IF old = 192
    THEN IF new = 128 THEN -1 ELSE IF new = 64 THEN 1 ELSE 0
    ELSE 0

ReadShaftEncoder ==
    /\ pc = "idle"
    /\ LET new_value == BitAnd(PINC, 192) IN
        /\ rotation' = EncoderRotation(old_value, new_value)
        /\ old_value' = new_value
    /\ prevRotation' = rotation
    /\ prevBits' = curBits
    /\ curBits' = PINC \div 64
    /\ encCalls' = IF encCalls < 2 THEN encCalls + 1 ELSE encCalls
    /\ last' = "read_shaft_encoder"
    /\ UNCHANGED <<pc, ret, lowFirst>>
    /\ UNCHANGED timerVars
    /\ UNCHANGED <<PINC, stable, bresult>>
    /\ UNCHANGED motorVars

NextEncoder ==
    \/ ReadShaftEncoder
    \/ \E v \in 0 .. 255 : PinChange(v)

SpecEncoder == Init /\ [][NextEncoder]_vars

\* C5: a call of read_shaft_encoder returns 0 if and only if the two switch
\* bits it reads equal those read by the previous call (0b11 before the first)
C5_ZeroIffUnchanged ==
    encCalls >= 1 => (rotation = 0 <=> curBits = prevBits)

-----------------------------------------------------------------------------
(* move_stepper_motor_by_step *)

CoilWrites == 5                       \* iterations of the inner for loop

\* one iteration's update of turner: shift, then wrap to the start pattern
ShiftTurner(d, t) ==
    IF d = 1
    THEN LET u == (t * 2) % ByteMod IN IF u = 0 THEN 16 ELSE u
    ELSE LET u == t \div 2 IN IF u = 8 THEN 128 ELSE u

RECURSIVE TurnerAfter(_, _, _)
TurnerAfter(d, t, i) == IF i = 0 THEN t ELSE ShiftTurner(d, TurnerAfter(d, t, i - 1))

CallStepper(n, d) ==
    /\ pc = "idle"
    /\ motorCalls < MaxMotorCalls
    /\ motorCalls' = motorCalls + 1
    /\ num_steps' = n /\ direction' = d
    /\ steps' = 0
    /\ turner' = 16
    /\ masked_porte' = BitAnd(PORTE, 15)
    /\ writes' = 0
    /\ last' = "none"
    /\ pc' = "m_test"
    /\ UNCHANGED <<ret, lowFirst, PORTE>>
    /\ UNCHANGED timerVars
    /\ UNCHANGED inputVars

\* while (steps <= num_steps)
StepperTest == steps <= num_steps

\* one pass of the while loop up to the entry of wait_ms(2), or the return;
\* steps stays far below the range of int for the arguments in StepArgs
StepperLoop ==
    /\ pc = "m_test"
    /\ IF StepperTest
       THEN /\ IF direction \in {1, -1}
               THEN /\ PORTE' = BitOr(masked_porte,
                                      TurnerAfter(direction, turner, CoilWrites - 1))
                    /\ turner' = TurnerAfter(direction, turner, CoilWrites)
                    /\ writes' = writes + CoilWrites
                    /\ steps' = steps + 1
               ELSE UNCHANGED <<PORTE, turner, writes, steps>>
            /\ WaitEntry(2, "m_test")
            /\ UNCHANGED last
       ELSE /\ pc' = "idle"
            /\ last' = "move_stepper_motor_by_step"
            /\ UNCHANGED <<ret, PORTE, turner, writes, steps>>
            /\ UNCHANGED timerVars
    /\ UNCHANGED <<lowFirst, num_steps, direction, masked_porte, motorCalls>>
    /\ UNCHANGED inputVars

NextStepper ==
    \/ \E n \in StepArgs, d \in DirArgs : CallStepper(n, d)
    \/ StepperLoop
    \/ WaitRead1
    \/ WaitRead2
    \/ Timer2Stop
    \/ TIMER2_COMP

\* the stepper runs are explored for the build that reads the low byte first
InitStepper == InitWith({TRUE}, PortEInit)

SpecStepper == InitStepper /\ [][NextStepper]_vars

NextShortStepper ==
    \/ \E n \in ShortStepArgs, d \in DirArgs : CallStepper(n, d)
    \/ StepperLoop
    \/ WaitRead1
    \/ WaitRead2
    \/ Timer2Stop
    \/ TIMER2_COMP

\* the main program keeps running and the enabled interrupt keeps being served
FairStepper ==
    /\ InitStepper /\ [][NextShortStepper]_vars
    /\ WF_vars(StepperLoop \/ WaitStep)
    /\ WF_vars(TIMER2_COMP)

StepperReturned == pc = "idle" /\ last = "move_stepper_motor_by_step"
StepperRunning == pc \in {"m_test", "w_rd1", "w_rd2", "w_stop"}

\* C3: for num_steps in 1..200 and direction 1 or -1 the call has performed
\* exactly num_steps step cycles (increments of steps, each followed by one
\* wait_ms(2)) when it returns
C3_ExactSteps ==
    (StepperReturned /\ num_steps \in 1 .. 200 /\ direction \in {1, -1}) =>
        (steps = num_steps /\ writes = CoilWrites * num_steps)

====
